---- MODULE Spec2Model ----
(***************************************************************************)
(* State-machine model of sympa's training/evaluation controller           *)
(* (src/sympa/runner.py, class Runner).                                    *)
(*                                                                         *)
(* The model state is abstracted to a version number (one fresh version    *)
(* per optimizer step) plus the id of a point lying outside the manifold   *)
(* (NoPoint when every point is inside).  Validation distortion is a       *)
(* function of the model state: Runner.evaluate runs the model in eval     *)
(* mode, without                                                           *)
(* gradients, over the sequentially ordered validation loader.  The        *)
(* function is sampled lazily (distOf) the first time a version is         *)
(* evaluated.  Distortions are finite numbers 0..MaxDist; Inf stands for   *)
(* float("inf").                                                           *)
(*                                                                         *)
(* Specifications:                                                         *)
(*   Spec, FairSpec  Runner.run with train_epoch, statement by statement   *)
(*   SpecTelemetry   the same, where a writer.add_scalar call may raise    *)
(*   SpecExport      Runner.export_results on its own                      *)
(*   SpecEval        Runner.evaluate on its own, batch by batch            *)
(***************************************************************************)
EXTENDS Integers, Sequences, FiniteSets, TLC

\* ---------------------------------------------------------------- bounds
MaxEpochs == 6
MaxValEvery == 2
MaxSaveEpochs == 2
MaxPatience == 1
MaxAccum == 2
MaxBatches == 3
MaxDist == 1
MaxPrec == 1
MaxDims == 3
MaxExports == 3
MaxTriplets == 3
MaxBatchSize == 3
MaxPair == 2

\* ------------------------------------------------------ program constants
PatienceFactor == 3
Percent == 100

Dists == 0..MaxDist
Inf == MaxDist + 1
Precs == 1..MaxPrec

\* the embedded points, and the absence of an offending point
Points == {"p1"}
NoPoint == "none"

\* best_model_state = None
NoState == [ver |-> -1, bad |-> NoPoint]
NoAbort == [reason |-> "", point |-> NoPoint]

\* len(DataLoader(triplets, batch_size=bs)): drop_last is False
NumBatches(n, bs) == (n + bs - 1) \div bs

Configs ==
    [epochs : 1..MaxEpochs, val_every : 1..MaxValEvery,
     save_epochs : 1..MaxSaveEpochs, patience : 0..MaxPatience,
     grad_accum_steps : 1..MaxAccum, batches : 1..MaxBatches]

VARIABLES
    args,             \* self.args (with len(self.train) as args.batches)
    pc,               \* position of Runner.run
    epoch,            \* loop variable of run
    step,             \* batches of the current epoch already processed
    accum,            \* batches back-propagated since the last zero_grad
    stepLog,          \* per optimizer step of this epoch: batches it applied
    model,            \* live model state
    distOf,           \* distortion of every model version evaluated so far
    best_distortion, best_epoch, best_model_state,
    earlyStopped,     \* the loop was left through break
    ckpt,             \* checkpoint store: epoch tag -> saved model state
    valLog,           \* in-loop validation events (val/distortion series)
    readers,          \* accumulation window seen by validator / evaluator
    validatorCalls,   \* calls of check_points_in_manifold
    mAPCalls,         \* calls of calculate_mAP
    finLog,           \* finalization steps performed, in order
    finalDist, finalPrec,
    results,          \* records appended by export_results
    abortInfo,        \* payload of the AssertionError of the validator
    trainedBatches,   \* batches back-propagated in the whole run
    endLog,           \* model state at the end of each epoch's training
    saveLog,          \* calls of save_model, in order
    schedLog          \* calls of scheduler.step, in order

\* Runner.export_results taken alone
VARIABLES
    expArgs,          \* args.model and args.dims
    expCalls,         \* arguments of the calls of export_results so far
    expStore          \* rows appended to args.results_file

\* Runner.evaluate taken alone
VARIABLES
    evPairs,          \* per-pair distortion of every triplet, in loader order
    batch_size,       \* args.batch_size of the validation loader
    evPos,            \* triplets already consumed
    total_distortion, \* the list extended batch by batch
    avg_distortion,   \* return value
    evModel           \* model state when evaluate was called

runVars == <<args, pc, epoch, step, accum, stepLog, model, distOf,
             best_distortion, best_epoch, best_model_state, earlyStopped,
             ckpt, valLog, readers, validatorCalls, mAPCalls, finLog,
             finalDist, finalPrec, results, abortInfo, trainedBatches,
             endLog, saveLog, schedLog>>
exportVars == <<expArgs, expCalls, expStore>>
evalVars == <<evPairs, batch_size, evPos, total_distortion, avg_distortion,
              evModel>>
vars == <<runVars, exportVars, evalVars>>

\* ------------------------------------------------------------- operators

\* model.check_all_points(): (all_points_ok, outside_point, reason)
check_all_points(m) ==
    [ok |-> m.bad = NoPoint, point |-> m.bad,
     reason |-> IF m.bad = NoPoint THEN "" ELSE "outside"]

\* check_points_in_manifold: raise unless all_points_ok
MustAbortNever(res) == FALSE
MustAbort(res) == ~res.ok

\* (step + 1) % grad_accum_steps == 0, step being the 0-based batch index
StepDueOffByOne(s, k) == s % k = 0
StepDue(s, k) == (s + 1) % k = 0

\* train_epoch lines 80-81, model.zero_grad(); optimizer.zero_grad() before
\* the first batch: what the previous epoch left accumulated is dropped
ZeroGradAtStartSkipped(a) == a
ZeroGradAtStart(a) == 0

\* model.zero_grad(); optimizer.zero_grad(): the accumulated window is emptied
ZeroGradSkipped(a) == a
ZeroGrad(a) == 0

\* for epoch in trange(1, epochs + 1): the body just run was the last one
LastEpochOnePast(e, epochs) == e = epochs + 1
LastEpoch(e, epochs) == e = epochs

\* epoch % save_epochs == 0
SaveDueShifted(e, save_epochs) == (e + 1) % save_epochs = 0
SaveDue(e, save_epochs) == e % save_epochs = 0

\* epoch % val_every == 0
ValDueShifted(e, val_every) == (e + 1) % val_every = 0
ValDue(e, val_every) == e % val_every = 0

\* distortion < best_distortion
ImprovesOnTie(d, best) == d <= best
Improves(d, best) == d < best

\* epoch - best_epoch >= patience * 3
EarlyStopUnlessImproved(e, b, p) == e - b >= p * PatienceFactor /\ e # b
EarlyStopStrict(e, b, p) == e - b > p * PatienceFactor
EarlyStop(e, b, p) == e - b >= p * PatienceFactor

\* self.model.load_state_dict(best_model_state)
RestoredLive(snapshot, live) == live
Restored(snapshot, live) == snapshot

\* statement order of the finalization block of run
FinNextSwapped(p) ==
    CASE p = "finalize" -> "fin_eval"
      [] p = "fin_eval" -> "fin_export"
      [] p = "fin_export" -> "fin_map"
      [] p = "fin_map" -> "fin_save"
      [] OTHER -> "done"
FinNext(p) ==
    CASE p = "finalize" -> "fin_eval"
      [] p = "fin_eval" -> "fin_map"
      [] p = "fin_map" -> "fin_export"
      [] p = "fin_export" -> "fin_save"
      [] OTHER -> "done"

\* save_path = f"{run_id}-best-{epoch}ep"; the run id is fixed in a run
SaveKeyNext(e) == e + 1
SaveKey(e) == e

\* torch.save({"model": state_dict, ...}, save_path) overwrites the key
Saved(store, e, m) ==
    [x \in DOMAIN store \cup {SaveKey(e)} |->
        IF x = SaveKey(e) THEN m ELSE store[x]]

\* Runner.evaluate on model state m yielding d, consistent with distOf
EvalYields(m, d) == m.ver \in DOMAIN distOf => d = distOf[m.ver]
Memo(m, d) ==
    [x \in DOMAIN distOf \cup {m.ver} |-> IF x = m.ver THEN d ELSE distOf[x]]

\* a fresh model state after optimizer.step(); the update may push a point out
StepResults(m) == [ver : {m.ver + 1}, bad : Points \cup {NoPoint}]

\* copy.deepcopy(self.model.state_dict()): the snapshot shares no storage with
\* the live tensors, so the in-place update of optimizer.step() (giving the
\* live state `live`) leaves it as it was
SnapshotAfterStepAliased(snapshot, live) ==
    IF snapshot = NoState THEN snapshot ELSE live
SnapshotAfterStep(snapshot, live) == snapshot

\* self.scheduler.step(distortion), called while best_distortion is `best`
SchedulerStepLate(log, e, d, best) ==
    Append(log, [epoch |-> e, metric |-> d,
                 best |-> IF d < best THEN d ELSE best])
SchedulerStep(log, e, d, best) ==
    Append(log, [epoch |-> e, metric |-> d, best |-> best])

----------------------------------------------------------------------------
\* no call of export_results or evaluate taken alone
NoArgs == [model |-> "", dims |-> 0]
NoResult == [num |-> 0, den |-> 0]
ExportIdle == expArgs = NoArgs /\ expCalls = <<>> /\ expStore = <<>>
EvalIdle ==
    /\ evPairs = <<>>
    /\ batch_size = 1
    /\ evPos = 0
    /\ total_distortion = <<>>
    /\ avg_distortion = NoResult
    /\ evModel = NoState

InitRunner ==
    /\ args \in Configs
    /\ pc = "train_epoch"
    /\ epoch = 0
    /\ step = 0
    /\ accum = 0
    /\ stepLog = <<>>
    /\ model \in [ver : {0}, bad : Points \cup {NoPoint}]
    /\ distOf = <<>>
    /\ best_distortion = Inf
    /\ best_epoch = -1
    /\ best_model_state = NoState
    /\ earlyStopped = FALSE
    /\ ckpt = <<>>
    /\ valLog = <<>>
    /\ readers = {}
    /\ validatorCalls = 0
    /\ mAPCalls = 0
    /\ finLog = <<>>
    /\ finalDist = Inf
    /\ finalPrec = 0
    /\ results = <<>>
    /\ abortInfo = NoAbort
    /\ trainedBatches = 0
    /\ endLog = <<>>
    /\ saveLog = <<>>
    /\ schedLog = <<>>

Init == InitRunner /\ ExportIdle /\ EvalIdle

\* run line 34-35 and train_epoch lines 76-81: next epoch, validator, resets
StartEpoch ==
    /\ pc = "train_epoch"
    /\ epoch' = epoch + 1
    /\ validatorCalls' = validatorCalls + 1
    /\ readers' = readers \cup
          {[who |-> "validator", first |-> (epoch = 0), accum |-> accum]}
    /\ LET res == check_all_points(model) IN
         IF MustAbort(res)
         THEN /\ pc' = "aborted"
              /\ abortInfo' = [reason |-> res.reason, point |-> res.point]
              /\ UNCHANGED <<step, accum, stepLog>>
         ELSE /\ pc' = "batch"
              /\ step' = 0
              /\ accum' = ZeroGradAtStart(accum)
              /\ stepLog' = <<>>
              /\ UNCHANGED abortInfo
    /\ UNCHANGED <<args, model, distOf, best_distortion, best_epoch,
                   best_model_state, earlyStopped, ckpt, valLog, mAPCalls,
                   finLog, finalDist, finalPrec, results,
                   trainedBatches, endLog, saveLog, schedLog,
                   exportVars, evalVars>>

\* train_epoch lines 83-104: one batch, with the optimizer step when due
TrainBatch ==
    /\ pc = "batch"
    /\ step < args.batches
    /\ step' = step + 1
    /\ trainedBatches' = trainedBatches + 1
    /\ IF StepDue(step, args.grad_accum_steps)
       THEN /\ model' \in StepResults(model)
            /\ best_model_state' = SnapshotAfterStep(best_model_state, model')
            /\ stepLog' = Append(stepLog, accum + 1)
            /\ accum' = ZeroGrad(accum + 1)
       ELSE /\ accum' = accum + 1
            /\ UNCHANGED <<model, best_model_state, stepLog>>
    /\ UNCHANGED <<args, pc, epoch, distOf, best_distortion, best_epoch,
                   earlyStopped, ckpt, valLog, readers,
                   validatorCalls, mAPCalls, finLog, finalDist, finalPrec,
                   results, abortInfo, endLog, saveLog, schedLog,
                   exportVars, evalVars>>

\* train_epoch lines 106-107 and run lines 37-41: epoch statistics
EndTrainEpoch ==
    /\ pc = "batch"
    /\ step = args.batches
    /\ pc' = "save"
    /\ endLog' = Append(endLog, model)
    /\ UNCHANGED <<args, epoch, step, accum, stepLog, model, distOf,
                   best_distortion, best_epoch, best_model_state,
                   earlyStopped, ckpt, valLog, readers, validatorCalls,
                   mAPCalls, finLog, finalDist, finalPrec, results, abortInfo,
                   trainedBatches, saveLog, schedLog,
                   exportVars, evalVars>>

\* run lines 43-44: periodic checkpoint
Checkpoint ==
    /\ pc = "save"
    /\ pc' = "validate"
    /\ ckpt' = IF SaveDue(epoch, args.save_epochs)
               THEN Saved(ckpt, epoch, model) ELSE ckpt
    /\ saveLog' = IF SaveDue(epoch, args.save_epochs)
                  THEN Append(saveLog, [tag |-> SaveKey(epoch), final |-> FALSE,
                                        model |-> model])
                  ELSE saveLog
    /\ UNCHANGED <<args, epoch, step, accum, stepLog, model, distOf,
                   best_distortion, best_epoch, best_model_state,
                   earlyStopped, valLog, readers, validatorCalls, mAPCalls,
                   finLog, finalDist, finalPrec, results, abortInfo,
                   trainedBatches, endLog, schedLog,
                   exportVars, evalVars>>

\* run lines 46-62 and the loop test of line 34
Validate ==
    /\ pc = "validate"
    /\ IF ValDue(epoch, args.val_every)
       THEN \E d \in Dists :
              /\ EvalYields(model, d)
              /\ distOf' = Memo(model, d)
              /\ readers' = readers \cup
                    {[who |-> "evaluator", first |-> FALSE, accum |-> accum]}
              /\ schedLog' = SchedulerStep(schedLog, epoch, d, best_distortion)
              /\ LET imp == Improves(d, best_distortion)
                     b == IF imp THEN epoch ELSE best_epoch
                     stop == EarlyStop(epoch, b, args.patience)
                 IN /\ best_distortion' = IF imp THEN d ELSE best_distortion
                    /\ best_epoch' = b
                    /\ valLog' = Append(valLog,
                          [epoch |-> epoch, distortion |-> d, model |-> model,
                           best |-> b])
                    /\ best_model_state' = IF imp THEN model ELSE best_model_state
                    /\ earlyStopped' = stop
                    /\ pc' = IF stop \/ LastEpoch(epoch, args.epochs)
                             THEN "finalize" ELSE "train_epoch"
       ELSE /\ pc' = IF LastEpoch(epoch, args.epochs)
                     THEN "finalize" ELSE "train_epoch"
            /\ UNCHANGED <<distOf, readers, valLog, schedLog, best_distortion,
                           best_epoch, best_model_state, earlyStopped>>
    /\ UNCHANGED <<args, epoch, step, accum, stepLog, model, ckpt,
                   validatorCalls, mAPCalls, finLog, finalDist, finalPrec,
                   results, abortInfo,
                   trainedBatches, endLog, saveLog,
                   exportVars, evalVars>>

\* run lines 64-65: restore the snapshot; load_state_dict(None) raises
FinRestore ==
    /\ pc = "finalize"
    /\ IF best_model_state = NoState
       THEN /\ pc' = "load_error"
            /\ UNCHANGED <<model, finLog>>
       ELSE /\ pc' = FinNext(pc)
            /\ model' = Restored(best_model_state, model)
            /\ finLog' = Append(finLog, "restore")
    /\ UNCHANGED <<args, epoch, step, accum, stepLog, distOf, best_distortion,
                   best_epoch, best_model_state, earlyStopped, ckpt, valLog,
                   readers, validatorCalls, mAPCalls, finalDist, finalPrec,
                   results, abortInfo,
                   trainedBatches, endLog, saveLog, schedLog,
                   exportVars, evalVars>>

\* run line 67: final evaluation
FinEvaluate ==
    /\ pc = "fin_eval"
    /\ pc' = FinNext(pc)
    /\ \E d \in Dists :
         /\ EvalYields(model, d)
         /\ distOf' = Memo(model, d)
         /\ finalDist' = d
    /\ readers' = readers \cup
          {[who |-> "evaluator", first |-> FALSE, accum |-> accum]}
    /\ finLog' = Append(finLog, "evaluate")
    /\ UNCHANGED <<args, epoch, step, accum, stepLog, model, best_distortion,
                   best_epoch, best_model_state, earlyStopped, ckpt, valLog,
                   validatorCalls, mAPCalls, finalPrec, results, abortInfo,
                   trainedBatches, endLog, saveLog, schedLog,
                   exportVars, evalVars>>

\* run line 68: calculate_mAP
FinMAP ==
    /\ pc = "fin_map"
    /\ pc' = FinNext(pc)
    /\ finalPrec' \in Precs
    /\ mAPCalls' = mAPCalls + 1
    /\ finLog' = Append(finLog, "mAP")
    /\ UNCHANGED <<args, epoch, step, accum, stepLog, model, distOf,
                   best_distortion, best_epoch, best_model_state,
                   earlyStopped, ckpt, valLog, readers, validatorCalls,
                   finalDist, results, abortInfo,
                   trainedBatches, endLog, saveLog, schedLog,
                   exportVars, evalVars>>

\* run line 69: export_results
FinExport ==
    /\ pc = "fin_export"
    /\ pc' = FinNext(pc)
    /\ results' = Append(results, [distortion |-> finalDist * Percent,
                                   mAP |-> finalPrec * Percent])
    /\ finLog' = Append(finLog, "export")
    /\ UNCHANGED <<args, epoch, step, accum, stepLog, model, distOf,
                   best_distortion, best_epoch, best_model_state,
                   earlyStopped, ckpt, valLog, readers, validatorCalls,
                   mAPCalls, finalDist, finalPrec, abortInfo,
                   trainedBatches, endLog, saveLog, schedLog,
                   exportVars, evalVars>>

\* run lines 72-73: final checkpoint tagged with the best epoch
FinSave ==
    /\ pc = "fin_save"
    /\ pc' = FinNext(pc)
    /\ ckpt' = Saved(ckpt, best_epoch, model)
    /\ saveLog' = Append(saveLog, [tag |-> SaveKey(best_epoch), final |-> TRUE,
                                   model |-> model])
    /\ finLog' = Append(finLog, "save")
    /\ UNCHANGED <<args, epoch, step, accum, stepLog, model, distOf,
                   best_distortion, best_epoch, best_model_state,
                   earlyStopped, valLog, readers, validatorCalls, mAPCalls,
                   finalDist, finalPrec, results, abortInfo,
                   trainedBatches, endLog, schedLog,
                   exportVars, evalVars>>

Next ==
    \/ StartEpoch
    \/ TrainBatch
    \/ EndTrainEpoch
    \/ Checkpoint
    \/ Validate
    \/ FinRestore
    \/ FinEvaluate
    \/ FinMAP
    \/ FinExport
    \/ FinSave

Spec == Init /\ [][Next]_vars

\* run is a single sequential thread, which always goes on to its next
\* statement
FairSpec == Spec /\ WF_vars(Next)

----------------------------------------------------------------------------
\* Runs in which the telemetry sink may fail.  No statement of run or
\* train_epoch catches an exception, so one raised by writer.add_scalar
\* leaves run.

\* train_epoch line 106 or run lines 37-41: a write of grad_norm/avg,
\* train/loss, train/lr, embeds/avg_norm or train/projected_points raises
TrainWriteFails ==
    /\ pc = "batch"
    /\ step = args.batches
    /\ pc' = "write_error"
    /\ UNCHANGED <<args, epoch, step, accum, stepLog, model, distOf,
                   best_distortion, best_epoch, best_model_state,
                   earlyStopped, ckpt, valLog, readers, validatorCalls,
                   mAPCalls, finLog, finalDist, finalPrec, results, abortInfo,
                   trainedBatches, endLog, saveLog, schedLog,
                   exportVars, evalVars>>

\* run lines 46-48: the write of val/distortion raises, after the evaluation
ValWriteFails ==
    /\ pc = "validate"
    /\ ValDue(epoch, args.val_every)
    /\ \E d \in Dists :
         /\ EvalYields(model, d)
         /\ distOf' = Memo(model, d)
    /\ readers' = readers \cup
          {[who |-> "evaluator", first |-> FALSE, accum |-> accum]}
    /\ pc' = "write_error"
    /\ UNCHANGED <<args, epoch, step, accum, stepLog, model,
                   best_distortion, best_epoch, best_model_state,
                   earlyStopped, ckpt, valLog, validatorCalls,
                   mAPCalls, finLog, finalDist, finalPrec, results, abortInfo,
                   trainedBatches, endLog, saveLog, schedLog,
                   exportVars, evalVars>>

NextTelemetry ==
    \/ StartEpoch
    \/ TrainBatch
    \/ EndTrainEpoch
    \/ Checkpoint
    \/ Validate
    \/ FinRestore
    \/ FinEvaluate
    \/ FinMAP
    \/ FinExport
    \/ FinSave
    \/ TrainWriteFails
    \/ ValWriteFails

SpecTelemetry == Init /\ [][NextTelemetry]_vars

----------------------------------------------------------------------------
\* Runner.export_results on its own: the runner itself stays as constructed
RunnerIdle ==
    /\ InitRunner
    /\ args = [epochs |-> 1, val_every |-> 1, save_epochs |-> 1, patience |-> 0,
               grad_accum_steps |-> 1, batches |-> 1]
    /\ model = [ver |-> 0, bad |-> NoPoint]

\* values of args.model: the two named by export_results, and two others
Kinds == {"upper", "bounded", "euclidean", "poincare"}

\* the kinds whose points are symmetric or triangular d x d matrices
MatrixKinds == {"upper", "bounded"}

\* export_results lines 159-161: the local dims
ExportDimsUpperOnly(manifold, dims) ==
    IF manifold = "upper" THEN dims * (dims + 1) ELSE dims
ExportDims(manifold, dims) ==
    IF manifold = "upper" \/ manifold = "bounded"
    THEN dims * (dims + 1) ELSE dims

\* export_results lines 162-163 (data and run_id are copied from args)
result_data(a, avg_dist, avg_precision) ==
    [dims |-> ExportDims(a.model, a.dims), manifold |-> a.model,
     distortion |-> avg_dist * Percent, mAP |-> avg_precision * Percent]

InitExport ==
    /\ RunnerIdle
    /\ EvalIdle
    /\ expArgs \in [model : Kinds, dims : 1..MaxDims]
    /\ expCalls = <<>>
    /\ expStore = <<>>

\* export_results lines 157-164; write_results_to_file appends the row
ExportResults ==
    /\ Len(expStore) < MaxExports
    /\ \E d \in Dists, p \in Precs :
         /\ expCalls' = Append(expCalls, [args |-> expArgs, avg_distortion |-> d,
                                          avg_precision |-> p])
         /\ expStore' = Append(expStore, result_data(expArgs, d, p))
    /\ UNCHANGED <<expArgs, runVars, evalVars>>

NextExport == ExportResults

SpecExport == InitExport /\ [][NextExport]_vars

----------------------------------------------------------------------------
\* Runner.evaluate on its own.  The metric gives one distortion per pair, a
\* function of the model state and the triplet: evPairs lists them in the
\* order of the sequential loader (unit: 1 / MaxPair).

RECURSIVE SumSeq(_)
SumSeq(q) == IF q = <<>> THEN 0 ELSE Head(q) + SumSeq(Tail(q))

\* DataLoader(batch_size=bs): the batch starting after `pos` triplets; the
\* last one is smaller when bs does not divide the number of triplets
BatchAt(pairs, pos, bs) ==
    SubSeq(pairs, pos + 1,
           IF pos + bs < Len(pairs) THEN pos + bs ELSE Len(pairs))

\* total_distortion.extend(distortion.tolist())
ExtendedReplaced(total, batch) == batch
Extended(total, batch) == total \o batch

\* statistics.mean(data): the exact quotient sum / count, kept as a fraction
mean(data) == [num |-> SumSeq(data), den |-> Len(data)]

InitEval ==
    /\ RunnerIdle
    /\ ExportIdle
    /\ evPairs \in UNION {[1..n -> 0..MaxPair] : n \in 1..MaxTriplets}
    /\ batch_size \in 1..MaxBatchSize
    /\ evPos = 0
    /\ total_distortion = <<>>
    /\ avg_distortion = NoResult
    /\ evModel = model

\* evaluate lines 112-118: one batch, under torch.no_grad()
EvalBatch ==
    /\ avg_distortion = NoResult
    /\ evPos < Len(evPairs)
    /\ LET batch == BatchAt(evPairs, evPos, batch_size)
       IN  /\ total_distortion' = Extended(total_distortion, batch)
           /\ evPos' = evPos + Len(batch)
    /\ UNCHANGED <<evPairs, batch_size, avg_distortion, evModel, runVars,
                   exportVars>>

\* evaluate lines 120-121
EvalReturn ==
    /\ avg_distortion = NoResult
    /\ evPos = Len(evPairs)
    /\ avg_distortion' = mean(total_distortion)
    /\ UNCHANGED <<evPairs, batch_size, evPos, total_distortion, evModel,
                   runVars, exportVars>>

NextEval == EvalBatch \/ EvalReturn

SpecEval == InitEval /\ [][NextEval]_vars

----------------------------------------------------------------------------
TypeOK ==
    /\ args \in Configs
    /\ pc \in {"train_epoch", "batch", "save", "validate", "finalize",
               "fin_eval", "fin_map", "fin_export", "fin_save", "done",
               "aborted", "load_error", "write_error"}
    /\ epoch \in 0..args.epochs
    /\ step \in 0..args.batches
    /\ accum \in 0..args.batches

----------------------------------------------------------------------------
\* helpers of the properties
InLoop == pc \in {"train_epoch", "batch", "save", "validate"}
InEpoch == pc \in {"batch", "save", "validate"}
Finalizing == pc \in {"fin_eval", "fin_map", "fin_export", "fin_save", "done"}
LastVal == valLog[Len(valLog)]
Threshold == best_epoch + args.patience * PatienceFactor

----------------------------------------------------------------------------
\* C1 (as stated): with patience p and no improvement after best_epoch, the
\* epoch loop is left through early stopping at epoch best_epoch + 3p
\* exactly, for every val_every: never at another epoch, and no epoch after
\* best_epoch + 3p is ever trained.
C1_StopsAtBestPlus3p ==
    /\ earlyStopped => epoch = Threshold
    /\ (InEpoch /\ best_epoch >= 1) => epoch <= Threshold

\* C1 (amended): the early-stop test runs at validated epochs only, so the
\* loop is left at the first multiple of val_every that is >= best_epoch + 3p
\* (which is best_epoch + 3p itself when val_every divides 3p): a validated
\* epoch that does not stop the loop is closer than 3p to best_epoch, and the
\* stopping epoch is validated, at least 3p after best_epoch, and the
\* validated epoch before it was not.
C1_StopsAtFirstValidationFrom3p ==
    /\ (valLog # <<>> /\ ~earlyStopped) => LastVal.epoch - best_epoch < args.patience * PatienceFactor
    /\ earlyStopped =>
          /\ ~InLoop
          /\ LastVal.epoch = epoch
          /\ epoch % args.val_every = 0
          /\ epoch >= Threshold
          /\ epoch - args.val_every < Threshold
    /\ (InEpoch /\ best_epoch >= 1) => epoch - args.val_every < Threshold

\* the stop happens later than best_epoch + 3p: val_every = 2, p = 1
C1_Witness ==
    /\ earlyStopped
    /\ args.val_every = 2
    /\ args.patience = 1
    /\ best_epoch = 2
    /\ epoch = 6

----------------------------------------------------------------------------
\* C2: (best_epoch, best_distortion, best_model_state) are those of the
\* earliest validated epoch whose recorded distortion is minimal among all
\* epochs validated so far; before the first validation they are
\* (-1, inf, None).
C2_BestIsEarliestMinimum ==
    IF valLog = <<>>
    THEN best_epoch = -1 /\ best_distortion = Inf /\ best_model_state = NoState
    ELSE \E i \in 1..Len(valLog) :
            /\ best_epoch = valLog[i].epoch
            /\ best_distortion = valLog[i].distortion
            /\ best_model_state = valLog[i].model
            /\ \A j \in 1..Len(valLog) :
                  /\ valLog[j].distortion >= valLog[i].distortion
                  /\ j < i => valLog[j].distortion > valLog[i].distortion

\* a later validated epoch ties with the best one, after a different model
C2_Witness ==
    \E i, j \in 1..Len(valLog) :
        /\ i < j
        /\ valLog[i].epoch = best_epoch
        /\ valLog[j].distortion = best_distortion
        /\ valLog[j].model # valLog[i].model

----------------------------------------------------------------------------
\* C3: in every epoch the optimizer steps number floor(B / k) once the batch
\* loop is over, each step applies exactly k batches accumulated since the
\* previous step or the epoch start, and the trailing B mod k batches are
\* never stepped on.
C3_StepsPerEpoch ==
    LET k == args.grad_accum_steps
        B == args.batches
    IN  InEpoch =>
          /\ Len(stepLog) = step \div k
          /\ \A i \in 1..Len(stepLog) : stepLog[i] = k
          /\ accum = step % k
          /\ model.ver = (epoch - 1) * (B \div k) + Len(stepLog)
          /\ pc \in {"save", "validate"} =>
                /\ step = B
                /\ Len(stepLog) = B \div k

\* three batches, k = 2: one step, one batch left in the trailing window
C3_Witness ==
    /\ pc = "save"
    /\ args.batches = 3
    /\ args.grad_accum_steps = 2
    /\ Len(stepLog) = 1
    /\ accum = 1
    /\ epoch = 2

----------------------------------------------------------------------------
\* C4: the validator is called once per started epoch, before any batch of
\* it; an epoch trains only if the validator passed; when it fails at the
\* start of epoch e the run is ABORTED with the validator's reason and
\* point, with no batch or optimizer step of epoch e, no checkpoint or
\* validation of an epoch >= e, and no restore, mAP, export or final
\* checkpoint.
C4_AbortOnViolation ==
    /\ validatorCalls = epoch
    /\ (pc = "batch" /\ step = 0) => check_all_points(model).ok
    /\ InEpoch => trainedBatches = (epoch - 1) * args.batches + step
    /\ pc = "aborted" =>
          /\ ~check_all_points(model).ok
          /\ abortInfo.reason = check_all_points(model).reason
          /\ abortInfo.reason # ""
          /\ abortInfo.point = check_all_points(model).point
          /\ trainedBatches = (epoch - 1) * args.batches
          /\ model.ver = (epoch - 1) * (args.batches \div args.grad_accum_steps)
          /\ \A e \in DOMAIN ckpt : e < epoch
          /\ \A i \in 1..Len(valLog) : valLog[i].epoch < epoch
          /\ finLog = <<>>
          /\ mAPCalls = 0
          /\ results = <<>>
    /\ pc # "aborted" => abortInfo = NoAbort

\* a point pushed outside during epoch 2 aborts the run before epoch 3 trains
C4_Witness ==
    /\ pc = "aborted"
    /\ epoch = 3
    /\ abortInfo.point = "p1"
    /\ trainedBatches = 2 * args.batches

----------------------------------------------------------------------------
\* C5: when the epoch loop ends with no snapshot recorded (no validation
\* ran), finalization signals an explicit configuration error, and there is
\* no final evaluation, mAP, results export or final checkpoint.
C5_ExplicitConfigError ==
    (~InLoop /\ pc # "aborted" /\ pc # "finalize" /\ best_model_state = NoState) =>
        /\ pc = "config_error"
        /\ finLog = <<>>
        /\ mAPCalls = 0
        /\ results = <<>>

----------------------------------------------------------------------------
\* C6: the epochs validated so far are exactly the multiples of val_every
\* among the epochs whose loop body was carried out (the i-th validation
\* event is that of epoch i * val_every, and there are floor(done /
\* val_every) of them);
\* with epochs = 4, val_every = 2, patience = 1 and 10 triplets in batches
\* of 5, a finished run has validated exactly epochs 2 and 4 and has not
\* been stopped early.
BodyDone == IF pc \in {"batch", "save", "validate", "aborted"} THEN epoch - 1 ELSE epoch

Scenario ==
    /\ args.epochs = 4
    /\ args.val_every = 2
    /\ args.patience = 1
    /\ args.batches = NumBatches(10, 5)

C6_ValidationCadence ==
    /\ Len(valLog) = BodyDone \div args.val_every
    /\ \A i \in 1..Len(valLog) : valLog[i].epoch = i * args.val_every
    /\ (Scenario /\ pc = "done") =>
          /\ Len(valLog) = 2
          /\ valLog[1].epoch = 2
          /\ valLog[2].epoch = 4
          /\ epoch = 4
          /\ ~earlyStopped

\* the scenario run has finished, the epoch-2 distortion being the lower one
C6_Witness ==
    /\ Scenario
    /\ pc = "done"
    /\ Len(valLog) = 2
    /\ valLog[1].distortion < valLog[2].distortion

----------------------------------------------------------------------------
\* C7: the exported distortion is the best validation distortion recorded in
\* the loop (the one recorded at best_epoch) in percent, and a finished run
\* holds, under the key of best_epoch, the restored best-model state, which
\* is the model state validated at best_epoch.
C7_FinalResultIsBest ==
    /\ results # <<>> =>
          /\ Len(results) = 1
          /\ results[1].distortion = best_distortion * Percent
          /\ \E i \in 1..Len(valLog) :
                /\ valLog[i].epoch = best_epoch
                /\ results[1].distortion = valLog[i].distortion * Percent
                /\ model = valLog[i].model
    /\ pc = "done" =>
          /\ results # <<>>
          /\ SaveKey(best_epoch) \in DOMAIN ckpt
          /\ ckpt[SaveKey(best_epoch)] = best_model_state
          /\ model = best_model_state

\* finished, although a later epoch was validated worse on another state
C7_Witness ==
    /\ pc = "done"
    /\ \E j \in 1..Len(valLog) :
          /\ valLog[j].epoch > best_epoch
          /\ valLog[j].distortion > best_distortion
          /\ valLog[j].model # best_model_state

----------------------------------------------------------------------------
FinOrder == <<"restore", "evaluate", "mAP", "export", "save">>
FinOrdered ==
    /\ Len(finLog) <= Len(FinOrder)
    /\ finLog = SubSeq(FinOrder, 1, Len(finLog))
    /\ mAPCalls = IF Len(finLog) >= 3 THEN 1 ELSE 0
    /\ Len(results) = IF Len(finLog) >= 4 THEN 1 ELSE 0
    /\ InLoop => finLog = <<>>
    /\ pc = "aborted" => (finLog = <<>> /\ results = <<>>)

\* C8 (as stated): every run that leaves the epoch loop without abort ends
\* having restored, evaluated, computed mAP, exported and saved, in this
\* order and once each; mAP is not computed in the loop; an aborted run
\* exports nothing.
C8_FinalizationAlways ==
    /\ FinOrdered
    /\ pc \in {"done", "load_error"} => finLog = FinOrder

\* C8 (amended): the same for every run that leaves the loop without abort
\* and with a Best-Model Snapshot recorded; a run that leaves the loop with
\* no snapshot fails in the restore and performs none of the five steps.
C8_FinalizationWithSnapshot ==
    /\ FinOrdered
    /\ pc = "done" => finLog = FinOrder
    /\ pc = "load_error" => (finLog = <<>> /\ best_model_state = NoState)
    /\ pc = "finalize" => finLog = <<>>
    /\ pc = "fin_eval" => Len(finLog) = 1
    /\ pc = "fin_map" => Len(finLog) = 2
    /\ pc = "fin_export" => Len(finLog) = 3
    /\ pc = "fin_save" => Len(finLog) = 4

\* an early-stopped run has gone through the whole finalization
C8_Witness ==
    /\ pc = "done"
    /\ earlyStopped
    /\ finLog = FinOrder
    /\ epoch < args.epochs

----------------------------------------------------------------------------
\* C9 (as stated): whenever the validator or the evaluator runs, no batch
\* has been accumulated since the last optimizer step or gradient reset.
C9_NoOpenWindow ==
    \A r \in readers : r.accum = 0

\* C9 (amended): validator and evaluator run at epoch boundaries only, where
\* the accumulated batches number B mod k (none at the validator call of
\* epoch 1): zero exactly when k divides B, else the trailing window, which
\* no optimizer step applies.
C9_TrailingWindowOnly ==
    /\ \A r \in readers :
          r.accum = IF r.who = "validator" /\ r.first
                    THEN 0 ELSE args.batches % args.grad_accum_steps
    /\ \A i \in 1..Len(stepLog) : stepLog[i] = args.grad_accum_steps

\* three batches, k = 2: evaluator and next validator see one pending batch
C9_Witness ==
    /\ args.batches = 3
    /\ args.grad_accum_steps = 2
    /\ [who |-> "evaluator", first |-> FALSE, accum |-> 1] \in readers
    /\ [who |-> "validator", first |-> FALSE, accum |-> 1] \in readers

----------------------------------------------------------------------------
\* C10: a model state with a point outside the manifold never leaves the
\* epoch loop other than by ABORTED: it never reaches finalization, it is
\* never the Best-Model Snapshot nor the state of the final evaluation and
\* mAP, and nothing is exported from it.
C10_OutsideAlwaysFatal ==
    /\ best_model_state.bad = NoPoint
    /\ model.bad # NoPoint => (InLoop \/ pc = "aborted")
    /\ results # <<>> => \A i \in 1..Len(valLog) : valLog[i].model.bad = NoPoint

----------------------------------------------------------------------------
\* C11: the Best-Model Snapshot taken at validated epoch b is an independent
\* copy: whatever optimizer steps follow, it stays the model state of the
\* end of epoch b's training, and that state is the live one from the
\* restore on; a snapshot is retained exactly when a validation has run
\* (one value, replaced on improvement).
C11_SnapshotIndependent ==
    /\ (best_model_state = NoState) <=> (valLog = <<>>)
    /\ (best_epoch = -1) <=> (valLog = <<>>)
    /\ best_epoch # -1 =>
          /\ best_epoch \in 1..Len(endLog)
          /\ best_model_state = endLog[best_epoch]
    /\ Finalizing => model = endLog[best_epoch]

\* restored after epochs that stepped the optimizer beyond the snapshot
C11_Witness ==
    /\ pc = "done"
    /\ best_epoch >= 1
    /\ Len(endLog) > best_epoch
    /\ endLog[Len(endLog)].ver > endLog[best_epoch].ver
    /\ model = endLog[best_epoch]

----------------------------------------------------------------------------
\* epochs whose training is complete and whose checkpoint statement is past
SavePassed == IF pc \in {"batch", "save", "aborted"} THEN epoch - 1 ELSE epoch

\* C12: the periodic checkpoints written so far are exactly those of the
\* multiples of save_epochs among the epochs whose training completed, in
\* order, each tagged with its epoch and holding the state at the end of
\* that epoch's training - whatever val_every is, whether or not the epoch
\* was validated or improved, the early-stop epoch included; the only other
\* write is the final one.
C12_CheckpointCadence ==
    LET n == SavePassed \div args.save_epochs
    IN  /\ Len(saveLog) = n + (IF pc = "done" THEN 1 ELSE 0)
        /\ \A i \in 1..n :
              saveLog[i] = [tag |-> SaveKey(i * args.save_epochs),
                            final |-> FALSE,
                            model |-> endLog[i * args.save_epochs]]
        /\ pc = "done" => saveLog[Len(saveLog)].final

\* checkpoints at unvalidated epochs 1, 3, 5, at epoch 4 validated without
\* improvement, and at epoch 6 where early stopping triggers
C12_Witness ==
    /\ earlyStopped
    /\ args.save_epochs = 1
    /\ args.val_every = 2
    /\ best_epoch = 2
    /\ epoch = 6
    /\ Len(saveLog) >= 6
    /\ saveLog[6].tag = SaveKey(6)
    /\ ~saveLog[6].final

----------------------------------------------------------------------------
----------------------------------------------------------------------------
\* C14: a failed telemetry write (train/loss, train/lr, embeds/avg_norm,
\* train/projected_points, val/distortion, grad_norm/avg) does not abort
\* training: no run is ended by the failure of a write, the epoch loop goes
\* on and finalization and export are still reached.
C14_TelemetryBestEffort ==
    pc # "write_error"

----------------------------------------------------------------------------
\* the ways a run ends: COMPLETED, EARLY_STOPPED then finalized, ABORTED (by
\* the validator, or by the failing restore of a run without snapshot)
Completed == pc = "done" /\ ~earlyStopped
EarlyStoppedFinalized == pc = "done" /\ earlyStopped
Aborted == pc \in {"aborted", "load_error"}
Ended == Completed \/ EarlyStoppedFinalized \/ Aborted

EpochsInOrder ==
    /\ epoch \in 0..args.epochs
    /\ Len(endLog) = (IF pc \in {"batch", "aborted"} THEN epoch - 1 ELSE epoch)
    /\ trainedBatches = Len(endLog) * args.batches
                          + (IF pc = "batch" THEN step ELSE 0)
    /\ (~InLoop /\ ~earlyStopped /\ pc # "aborted") => epoch = args.epochs
    /\ earlyStopped => ~InLoop

\* statements of run still ahead when neither abort nor early stop occurs
PerEpoch == args.batches + 4
Rank ==
    LET later == (args.epochs - epoch) * PerEpoch + Len(FinOrder)
    IN  CASE pc = "train_epoch" -> later
          [] pc = "batch" -> later + (args.batches - step) + 3
          [] pc = "save" -> later + 2
          [] pc = "validate" -> later + 1
          [] pc = "finalize" -> 5
          [] pc = "fin_eval" -> 4
          [] pc = "fin_map" -> 3
          [] pc = "fin_export" -> 2
          [] pc = "fin_save" -> 1
          [] OTHER -> 0

\* C15: epochs are trained in the order 1, 2, ..., each once and in full,
\* never beyond args.epochs; a run left neither by abort nor by early stop
\* has trained exactly the epochs 1..args.epochs; and every run ends
\* COMPLETED, EARLY_STOPPED and finalized, or ABORTED: a run that has not
\* ended always has a next statement, and every statement executed lowers
\* the count of statements ahead, which is zero exactly in the three ends.
C15_EpochRangeAndTermination ==
    /\ [](/\ EpochsInOrder
          /\ Rank >= 0
          /\ (Rank = 0) <=> Ended
          /\ ~Ended => ENABLED Next)
    /\ [][/\ epoch' = epoch \/ (epoch' = epoch + 1 /\ pc = "train_epoch")
          /\ Rank' < Rank]_vars

\* a run that trained all of its six epochs and completed
C15_Witness ==
    /\ Completed
    /\ args.epochs = 6
    /\ epoch = 6
    /\ Len(endLog) = 6
    /\ trainedBatches = 6 * args.batches

----------------------------------------------------------------------------
\* C16: the scheduler is stepped once per in-loop validation event, at that
\* validated epoch and with that event's distortion, the early-stop epoch
\* included; the step comes before the best-model comparison (the best
\* distortion at the time of the i-th step is the lowest of the i-1
\* distortions before it); no step at an unvalidated epoch, none by the
\* final evaluation.
C16_SchedulerProtocol ==
    /\ Len(schedLog) = Len(valLog)
    /\ \A i \in 1..Len(schedLog) :
          /\ schedLog[i].epoch = i * args.val_every
          /\ schedLog[i].epoch = valLog[i].epoch
          /\ schedLog[i].metric = valLog[i].distortion
          /\ schedLog[i].best =
                IF i = 1 THEN Inf
                ELSE IF schedLog[i-1].metric < schedLog[i-1].best
                     THEN schedLog[i-1].metric ELSE schedLog[i-1].best
    /\ earlyStopped => schedLog[Len(schedLog)].epoch = epoch

\* stepped at the early-stop epoch, which did not improve, and not again by
\* the final evaluation
C16_Witness ==
    /\ pc = "done"
    /\ earlyStopped
    /\ finLog = FinOrder
    /\ Len(schedLog) = 3
    /\ schedLog[3].epoch = epoch
    /\ schedLog[3].best < schedLog[3].metric

----------------------------------------------------------------------------
\* C17: whatever the triplets and the batch size (a smaller last batch
\* included), the value returned by evaluate is the sum of the per-pair
\* distortions of all triplets divided by their number, so it does not
\* depend on the split into batches; and the model state is the one
\* evaluate was called on.
C17_EvaluateMean ==
    /\ model = evModel
    /\ evPos <= Len(evPairs)
    /\ avg_distortion # NoResult =>
          /\ avg_distortion.den > 0
          /\ avg_distortion.num * Len(evPairs)
                = SumSeq(evPairs) * avg_distortion.den

\* three triplets in batches of 2 and 1: 4/3, where the mean of the batch
\* means would be 3/2
C17_Witness ==
    /\ evPairs = <<2, 0, 2>>
    /\ batch_size = 2
    /\ avg_distortion = [num |-> 4, den |-> 3]

----------------------------------------------------------------------------
\* C18: the early-stop test runs at validated epochs only, with best_epoch
\* as updated by that validation: the loop goes on after every validated
\* epoch e with e - best_epoch < 3 * patience and is left at the first one
\* with e - best_epoch >= 3 * patience, always a multiple of val_every; it
\* is left before args.epochs in no other way (abort apart); with
\* patience = 0 it is left at the first validated epoch, which improved.
C18_EarlyStopAtValidationOnly ==
    /\ \A i \in 1..Len(valLog) :
          (i < Len(valLog) \/ ~earlyStopped) =>
              valLog[i].epoch - valLog[i].best < 3 * args.patience
    /\ earlyStopped =>
          /\ ~InLoop
          /\ LastVal.epoch = epoch
          /\ LastVal.best = best_epoch
          /\ epoch % args.val_every = 0
          /\ epoch - best_epoch >= 3 * args.patience
    /\ (~InLoop /\ pc # "aborted" /\ epoch < args.epochs) => earlyStopped
    /\ (args.patience = 0 /\ valLog # <<>>) =>
          /\ earlyStopped
          /\ Len(valLog) = 1
          /\ epoch = args.val_every
          /\ best_epoch = epoch

\* patience 0: stopped at epoch 2, the first validated one, which is the best
C18_Witness ==
    /\ args.patience = 0
    /\ args.val_every = 2
    /\ args.epochs > 2
    /\ earlyStopped
    /\ epoch = 2
    /\ best_epoch = 2
    /\ pc = "done"

----------------------------------------------------------------------------
\* C19: the batches accumulated when an epoch's batch loop ends (B mod k of
\* them) are dropped by the reset at the start of the next train_epoch:
\* the batches pending at any time are batches of the current epoch, every
\* optimizer step applies exactly k batches of its own epoch, and of the
\* batches trained so far k per step were applied, the pending ones are
\* pending, and B mod k per finished epoch were never applied.
C19_TrailingWindowDiscarded ==
    LET k == args.grad_accum_steps
        B == args.batches
    IN  /\ InEpoch =>
              /\ accum <= step
              /\ accum < k
              /\ trainedBatches = k * model.ver + accum + (epoch - 1) * (B % k)
        /\ \A i \in 1..Len(stepLog) : stepLog[i] = k
        /\ \A r \in readers :
              (r.who = "validator" /\ ~r.first) => r.accum = B % k
        /\ \A i \in 1..Len(endLog) : endLog[i].ver = i * (B \div k)

\* three batches, k = 2: the second epoch has stepped once on its own two
\* batches, the third batch of epoch 1 having been dropped
C19_Witness ==
    /\ args.batches = 3
    /\ args.grad_accum_steps = 2
    /\ pc = "batch"
    /\ epoch = 2
    /\ step = 2
    /\ stepLog = <<2>>
    /\ accum = 0
    /\ trainedBatches = 5
    /\ model.ver = 2

----------------------------------------------------------------------------
\* C20: periodic and final checkpoints are written under the same key per
\* epoch, so the final checkpoint replaces the periodic one of best_epoch
\* when there is one; every write under the key of epoch e carries the
\* model state of the end of epoch e's training, so the replacing state is
\* the replaced one and the store never holds anything else under that key.
C20_KeyHoldsEpochEndState ==
    /\ \A e \in DOMAIN ckpt :
          /\ e \in 1..Len(endLog)
          /\ ckpt[e] = endLog[e]
    /\ \A i \in 1..Len(saveLog) :
          /\ saveLog[i].tag \in DOMAIN ckpt
          /\ saveLog[i].model = endLog[saveLog[i].tag]
          /\ saveLog[i].final => saveLog[i].tag = best_epoch

\* the final checkpoint of best epoch 2 has replaced the periodic one of
\* epoch 2, after later epochs had moved the live model on
C20_Witness ==
    /\ pc = "done"
    /\ best_epoch = 2
    /\ args.save_epochs = 2
    /\ Len(saveLog) >= 2
    /\ saveLog[1] = [tag |-> 2, final |-> FALSE, model |-> endLog[2]]
    /\ saveLog[Len(saveLog)] = [tag |-> 2, final |-> TRUE, model |-> endLog[2]]
    /\ endLog[Len(endLog)].ver > endLog[2].ver
====
